---- MODULE Spec2Model ----
(***************************************************************************)
(* Model of the notebook VQE_Anderson_model.ipynb: the two circuit         *)
(* builders construct_product_circ and construct_correlated_circ, and the  *)
(* kernel's global namespace as the code cells are executed statement by   *)
(* statement.  Library objects are kept symbolically: a value records the  *)
(* constructor call and the arguments that produced it.                    *)
(***************************************************************************)
EXTENDS Integers, Sequences, FiniteSets, TLC

VARIABLES g, bound, pc, cursor, err, figs, args, ret

vars == <<g, bound, pc, cursor, err, figs, args, ret>>

(* ------------------------------ bounds -------------------------------- *)

\* largest nbqbits a builder is called with
MaxQbits == 4
\* largest integer n_parameters a learner writes in construct_correlated_circ
MaxParams == 5
\* largest n_layers construct_correlated_circ is called with
MaxLayers == 3
\* energies an optimisation may end at are 0..MaxEnergy (abstract levels)
MaxEnergy == 1
\* cell executions a user makes in one kernel session, when the order is free
MaxRuns == 6

(* --------------------------- qat.lang.AQASM --------------------------- *)

\* prog = Program()
Program == [nbqbits |-> 0, vars |-> <<>>, gates |-> <<>>]

NoCirc == [nbqbits |-> 0, vars |-> <<>>, gates |-> <<>>]

\* reg = prog.qalloc(n): the register holds the indices of the new qubits
Reg(prog, n) == [i \in 1..n |-> prog.nbqbits + i - 1]

qalloc(prog, n) == [prog EXCEPT !.nbqbits = @ + n]

\* '\\theta_%s' % i
VarName(i) == "\\theta_" \o ToString(i)

\* prog.new_var(float, name)
new_var(prog, name) == [prog EXCEPT !.vars = Append(@, name)]

\* RY(var)(qbit)
ApplyRY(prog, var, qbit) ==
  [prog EXCEPT !.gates = Append(@, [gate |-> "RY", var |-> var, qbits |-> <<qbit>>])]

\* prog.to_circ()
to_circ(prog) == [nbqbits |-> prog.nbqbits, vars |-> prog.vars, gates |-> prog.gates]

\* theta = [prog.new_var(float, '\\theta_%s'%i) for i in range(n)]
RECURSIVE NewVars(_, _, _)
NewVars(prog, i, n) ==
  IF i >= n THEN prog ELSE NewVars(new_var(prog, VarName(i)), i + 1, n)

\* the list the comprehension returns
RECURSIVE ThetaList(_, _)
ThetaList(i, n) == IF i >= n THEN <<>> ELSE <<VarName(i)>> \o ThetaList(i + 1, n)

(* ----------------------- construct_product_circ ----------------------- *)

DefaultNbqbitsMutant == 4 - 1

\* def construct_product_circ(nbqbits=4)
DefaultNbqbits == 4

RECURSIVE ProductLoopSkipLast(_, _, _, _, _)
ProductLoopSkipLast(prog, theta, reg, ind, n) ==
  IF ind >= n - 1 THEN [status |-> "ok", prog |-> prog, ind |-> ind]
  ELSE IF ind >= Len(theta) \/ ind >= Len(reg)
       THEN [status |-> "IndexError", prog |-> prog, ind |-> ind]
       ELSE ProductLoopSkipLast(ApplyRY(prog, theta[ind + 1], reg[ind + 1]),
                                theta, reg, ind + 1, n)

\* for ind in range(nbqbits): RY(theta[ind])(reg[ind])
RECURSIVE ProductLoop(_, _, _, _, _)
ProductLoop(prog, theta, reg, ind, n) ==
  IF ind >= n THEN [status |-> "ok", prog |-> prog, ind |-> ind]
  ELSE IF ind >= Len(theta) \/ ind >= Len(reg)
       THEN [status |-> "IndexError", prog |-> prog, ind |-> ind]
       ELSE ProductLoop(ApplyRY(prog, theta[ind + 1], reg[ind + 1]),
                        theta, reg, ind + 1, n)

construct_product_circ(nbqbits) ==
  LET prog0 == Program
      reg   == Reg(prog0, nbqbits)
      prog1 == qalloc(prog0, nbqbits)
      theta == ThetaList(0, nbqbits)
      prog2 == NewVars(prog1, 0, nbqbits)
      r     == ProductLoop(prog2, theta, reg, 0, nbqbits)
  IN  IF r.status = "ok"
      THEN [status |-> "return", circ |-> to_circ(r.prog), prog |-> r.prog, ind |-> r.ind]
      ELSE [status |-> r.status, circ |-> NoCirc, prog |-> r.prog, ind |-> r.ind]

(* ---------------------- construct_correlated_circ --------------------- *)

\* n_parameters = ... as shipped; <<k>> once the learner writes the integer k
Ellipsis == <<>>

RECURSIVE ProductLayerNoIncr(_, _, _, _, _, _)
ProductLayerNoIncr(prog, theta, reg, ind, it, n) ==
  IF it >= n THEN [status |-> "ok", prog |-> prog, ind |-> ind]
  ELSE IF ind >= Len(theta) \/ ind >= Len(reg)
       THEN [status |-> "IndexError", prog |-> prog, ind |-> ind]
       ELSE ProductLayerNoIncr(ApplyRY(prog, theta[ind + 1], reg[ind + 1]),
                               theta, reg, ind, it + 1, n)

\* ind = 0
\* for _ in range(nbqbits): RY(theta[ind])(reg[ind]); ind += 1
RECURSIVE ProductLayer(_, _, _, _, _, _)
ProductLayer(prog, theta, reg, ind, it, n) ==
  IF it >= n THEN [status |-> "ok", prog |-> prog, ind |-> ind]
  ELSE IF ind >= Len(theta) \/ ind >= Len(reg)
       THEN [status |-> "IndexError", prog |-> prog, ind |-> ind]
       ELSE ProductLayer(ApplyRY(prog, theta[ind + 1], reg[ind + 1]),
                         theta, reg, ind + 1, it + 1, n)

\* for _ in range(n_layers): ...      (the body is the expression Ellipsis)
RECURSIVE EntangleLoop(_, _, _)
EntangleLoop(st, layer, n_layers) ==
  IF layer >= n_layers THEN st ELSE EntangleLoop(st, layer + 1, n_layers)

construct_correlated_circ(nbqbits, n_layers, n_parameters) ==
  LET prog0 == Program
      reg   == Reg(prog0, nbqbits)
      prog1 == qalloc(prog0, nbqbits)
  IN  IF n_parameters = Ellipsis
      THEN \* range(Ellipsis) raises TypeError
           [status |-> "TypeError", circ |-> NoCirc, prog |-> prog1, ind |-> 0]
      ELSE LET k     == n_parameters[1]
               theta == ThetaList(0, k)
               prog2 == NewVars(prog1, 0, k)
               r     == ProductLayer(prog2, theta, reg, 0, 0, nbqbits)
               e     == IF r.status = "ok" THEN EntangleLoop(r, 0, n_layers) ELSE r
           IN  IF e.status = "ok"
               THEN [status |-> "return", circ |-> to_circ(e.prog),
                     prog |-> e.prog, ind |-> e.ind]
               ELSE [status |-> e.status, circ |-> NoCirc, prog |-> e.prog, ind |-> e.ind]

(* ------------------------- library value models ----------------------- *)

NoHam == [cls |-> "", via |-> "", file |-> "", U |-> 0, mu |-> <<0, 1>>,
          V |-> <<>>, epsilon |-> <<>>, nbmodes |-> 0]

RECURSIVE Gcd(_, _)
Gcd(a, b) == IF b = 0 THEN a ELSE Gcd(b, a % b)

\* a / b on non-negative integers, b > 0: the rational <<numerator, denominator>>
TrueDiv(a, b) == LET d == Gcd(a, b) IN <<a \div d, b \div d>>

\* make_anderson_model(U, mu, V, epsilon): impurity and len(V) bath sites, two spins each
make_anderson_model(U, mu, V, epsilon) ==
  [cls |-> "ElectronicStructureHamiltonian", via |-> "make_anderson_model", file |-> "",
   U |-> U, mu |-> mu, V |-> V, epsilon |-> epsilon, nbmodes |-> 2 * (1 + Len(V))]

\* transform_to_jw_basis(h): one qubit per fermionic mode
transform_to_jw_basis(h) ==
  [h EXCEPT !.cls = "SpinHamiltonian", !.via = "transform_to_jw_basis"]

\* ElectronicStructureHamiltonian.load(file): the contents of the file are not in the notebook
ESH_load(file) ==
  [NoHam EXCEPT !.cls = "ElectronicStructureHamiltonian", !.via = "load", !.file = file]

NoSym == [op |-> "", of |-> NoHam]

\* h.get_matrix()
get_matrix(h) == [op |-> "get_matrix", of |-> h]

\* np.linalg.eigh(m) returns (eigvals, eigvecs)
eigh_vals(m) == [op |-> "eigvals", of |-> m.of]

eigh_vecs(m) == [op |-> "eigvecs", of |-> m.of]

\* eigvals[0]: the lowest eigenvalue
Item0(ev) == [op |-> "eigvals[0]", of |-> ev.of]

NoComp == [cls |-> "", id |-> 0, kw |-> {}]

\* cls(**kw): a plugin or QPU object, id its identity
New(cls, id, kw) == [cls |-> cls, id |-> id, kw |-> kw]

\* a | b on stacks given as sequences of components, outermost plugin first
Pipe(a, b) == a \o b

NoJob == [circ |-> NoCirc, observable |-> NoHam, nbshots |-> <<>>]

\* circ.to_job(observable=obs [, nbshots=n]); nbshots is <<>> when not passed
to_job(circ, obs, nbshots) == [circ |-> circ, observable |-> obs, nbshots |-> nbshots]

NoRes == [stack |-> <<>>, job |-> NoJob, value |-> 0]

\* stack.submit(job): the result, with the stack and job it came from
submit(stack, job, v) == [stack |-> stack, job |-> job, value |-> v]

NoTrace == [kind |-> "", of |-> NoRes]

\* res.meta_data['optimization_trace'], a string
optimization_trace(res) == [kind |-> "str", of |-> res]

\* eval(trace): the list the string denotes
PyEval(t) == [t EXCEPT !.kind = "list"]

NoFig == [hline |-> NoSym, hlineLabel |-> "", curve |-> NoTrace, curveLabel |-> "",
          grid |-> FALSE, xlabel |-> "", ylabel |-> "", legend |-> FALSE]

Energies == 0..MaxEnergy

(* ------------------------------ the cells ----------------------------- *)

\* the code cells in notebook order, each with the source lines of its statements
CodeCellsSwapped ==
  << [id |-> "5771e1eb", lines |-> <<>>],
     [id |-> "e109c856", lines |-> <<47, 48, 49, 51, 52, 54, 55, 57, 60, 61>>],
     [id |-> "03ca0e54", lines |-> <<113, 114, 115, 116, 118, 119, 120, 121, 122>>],
     [id |-> "d0796139", lines |-> <<142>>],
     [id |-> "efb4fdd5", lines |-> <<162>>],
     [id |-> "8008a68f", lines |-> <<211, 212, 213, 214, 216>>],
     [id |-> "1798a907", lines |-> <<180, 192, 193>>],
     [id |-> "f50282fb", lines |-> <<234, 235>>],
     [id |-> "2869fde0", lines |-> <<253, 254, 255, 256, 257, 258, 259>>],
     [id |-> "bf3ce257", lines |-> <<>>],
     [id |-> "3131b8ae", lines |-> <<300, 301, 303>>],
     [id |-> "51d42a32", lines |-> <<323, 325, 326, 328, 329, 331, 333, 334,
                                     335, 336, 337, 338>>],
     [id |-> "003bab9c", lines |-> <<360, 363>>],
     [id |-> "cc5d7634", lines |-> <<>>],
     [id |-> "93372946", lines |-> <<401, 402, 403, 404, 405, 406, 407, 409>>],
     [id |-> "a23bfc76", lines |-> <<431>>],
     [id |-> "1d73b586", lines |-> <<>>],
     [id |-> "86971d59", lines |-> <<481, 482, 484, 485, 487, 488>>] >>

CodeCells ==
  << [id |-> "5771e1eb", lines |-> <<>>],
     [id |-> "e109c856", lines |-> <<47, 48, 49, 51, 52, 54, 55, 57, 60, 61>>],
     [id |-> "03ca0e54", lines |-> <<113, 114, 115, 116, 118, 119, 120, 121, 122>>],
     [id |-> "d0796139", lines |-> <<142>>],
     [id |-> "efb4fdd5", lines |-> <<162>>],
     [id |-> "1798a907", lines |-> <<180, 192, 193>>],
     [id |-> "8008a68f", lines |-> <<211, 212, 213, 214, 216>>],
     [id |-> "f50282fb", lines |-> <<234, 235>>],
     [id |-> "2869fde0", lines |-> <<253, 254, 255, 256, 257, 258, 259>>],
     [id |-> "bf3ce257", lines |-> <<>>],
     [id |-> "3131b8ae", lines |-> <<300, 301, 303>>],
     [id |-> "51d42a32", lines |-> <<323, 325, 326, 328, 329, 331, 333, 334,
                                     335, 336, 337, 338>>],
     [id |-> "003bab9c", lines |-> <<360, 363>>],
     [id |-> "cc5d7634", lines |-> <<>>],
     [id |-> "93372946", lines |-> <<401, 402, 403, 404, 405, 406, 407, 409>>],
     [id |-> "a23bfc76", lines |-> <<431>>],
     [id |-> "1d73b586", lines |-> <<>>],
     [id |-> "86971d59", lines |-> <<481, 482, 484, 485, 487, 488>>] >>

NCells == Len(CodeCells)

CellIds == {CodeCells[i].id : i \in 1..NCells}

CellOf(id) == CHOOSE c \in {CodeCells[i] : i \in 1..NCells} : c.id = id

\* the cells that draw a figure
PlotCells == {"2869fde0", "51d42a32"}

\* the global names a statement reads (a call also reads the globals its callee reads)
Reads(line) ==
  CASE line = 114 -> {"U"}
    [] line = 118 -> {"make_anderson_model", "U", "mu", "V", "epsilon"}
    [] line = 119 -> {"hamilt_0"}
    [] line = 120 -> {"np", "h_mat_0"}
    [] line = 121 -> {"eigvals"}
    [] line = 122 -> {"E0_U0"}
    [] line = 142 -> {"hamilt_0"}
    [] line = 162 -> {"transform_to_jw_basis", "hamilt_0"}
    [] line = 192 -> {"construct_product_circ", "Program", "RY"}
    [] line = 193 -> {"circ"}
    [] line = 212 -> {"ScipyMinimizePlugin", "method"}
    [] line = 213 -> {"get_default_qpu"}
    [] line = 214 -> {"scipy_optimizer", "qpu"}
    [] line = 216 -> {"circ", "h_spin_0"}
    [] line = 234 -> {"stack", "job"}
    [] line = 235 -> {"res"}
    [] line = 253 -> {"res"}
    [] line = 254 -> {"plt", "E0_U0"}
    [] line = 255 -> {"plt", "VQE_trace"}
    [] line \in {256, 257, 258, 259} -> {"plt"}
    [] line = 300 -> {"MultipleLaunchesAnalyzer"}
    [] line = 301 -> {"multiplier", "stack"}
    [] line = 303 -> {"multiple_launches_stack", "job"}
    [] line = 325 -> {"ElectronicStructureHamiltonian"}
    [] line = 326 -> {"circ", "h_spin_0_rotated"}
    [] line = 328 -> {"ScipyMinimizePlugin"}
    [] line = 329 -> {"scipy_optimizer", "qpu"}
    [] line = 331 -> {"scipy_optimizer_stack", "job_with_shot_noise"}
    [] line = 333 -> {"plt", "E0_U0"}
    [] line = 334 -> {"plt", "scipy_res"}
    [] line \in {335, 336, 337, 338} -> {"plt"}
    [] line = 360 -> {"SeqOptim"}
    [] line = 363 -> {"seq_optim", "qpu"}
    [] line = 402 -> {"U"}
    [] line = 403 -> {"make_anderson_model", "U", "mu", "V", "epsilon"}
    [] line = 404 -> {"hamilt_1"}
    [] line = 405 -> {"np", "h_mat_1"}
    [] line = 406 -> {"eigvals"}
    [] line = 407 -> {"E0_U1"}
    [] line = 409 -> {"transform_to_jw_basis", "hamilt_1"}
    [] line = 484 -> {"PyLinalg"}
    [] line = 485 -> {"DepolarizingPluginVec"}
    [] line = 487 -> {"depol_plugin", "qpu"}
    [] line = 488 -> {"scipy_optimizer", "depol_plugin", "qpu"}
    [] OTHER -> {}

\* the global names a statement binds
Binds(line) ==
  CASE line = 47 -> {"np"}
    [] line = 48 -> {"copy"}
    [] line = 49 -> {"plt"}
    [] line = 51 -> {"make_anderson_model", "ElectronicStructureHamiltonian"}
    [] line = 52 -> {"transform_to_jw_basis"}
    [] line = 54 -> {"Program", "RY"}
    [] line = 55 -> {"ScipyMinimizePlugin", "SeqOptim", "MultipleLaunchesAnalyzer"}
    [] line = 57 -> {"get_default_qpu"}
    [] line = 60 -> {"transform_integrals_to_new_basis"}
    [] line = 61 -> {"RX", "RZ", "CNOT"}
    [] line = 113 -> {"U"}
    [] line = 114 -> {"mu"}
    [] line = 115 -> {"V"}
    [] line = 116 -> {"epsilon"}
    [] line = 118 -> {"hamilt_0"}
    [] line = 119 -> {"h_mat_0"}
    [] line = 120 -> {"eigvals", "eigvecs"}
    [] line = 121 -> {"E0_U0"}
    [] line = 162 -> {"h_spin_0"}
    [] line = 180 -> {"construct_product_circ"}
    [] line = 192 -> {"circ"}
    [] line = 211 -> {"method"}
    [] line = 212 -> {"scipy_optimizer"}
    [] line = 213 -> {"qpu"}
    [] line = 214 -> {"stack"}
    [] line = 216 -> {"job"}
    [] line = 234 -> {"res"}
    [] line = 253 -> {"VQE_trace"}
    [] line = 300 -> {"multiplier"}
    [] line = 301 -> {"multiple_launches_stack"}
    [] line = 303 -> {"res"}
    [] line = 323 -> {"ElectronicStructureHamiltonian"}
    [] line = 325 -> {"h_spin_0_rotated"}
    [] line = 326 -> {"job_with_shot_noise"}
    [] line = 328 -> {"scipy_optimizer"}
    [] line = 329 -> {"scipy_optimizer_stack"}
    [] line = 331 -> {"scipy_res"}
    [] line = 360 -> {"seq_optim"}
    [] line = 363 -> {"seq_optimizer_stack"}
    [] line = 401 -> {"U"}
    [] line = 402 -> {"mu"}
    [] line = 403 -> {"hamilt_1"}
    [] line = 404 -> {"h_mat_1"}
    [] line = 405 -> {"eigvals", "eigvecs"}
    [] line = 406 -> {"E0_U1"}
    [] line = 409 -> {"h_spin_1"}
    [] line = 431 -> {"construct_correlated_circ"}
    [] line = 481 -> {"PyLinalg"}
    [] line = 482 -> {"DepolarizingPluginVec", "make_matrix"}
    [] line = 484 -> {"qpu"}
    [] line = 485 -> {"depol_plugin"}
    [] line = 487 -> {"depol_qpu"}
    [] line = 488 -> {"depol_scipy_optimizer_stack"}
    [] OTHER -> {}

\* the statements that run an optimisation
SubmitLines == {234, 303, 331}

(* -------------------------- the global namespace ---------------------- *)

\* the values of the globals; a name holds its value only once it is in bound
G0 ==
  [U |-> 0, mu |-> <<0, 1>>, V |-> <<>>, epsilon |-> <<>>,
   hamilt_0 |-> NoHam, h_mat_0 |-> NoSym, eigvals |-> NoSym, eigvecs |-> NoSym,
   E0_U0 |-> NoSym, h_spin_0 |-> NoHam, circ |-> NoCirc, method |-> "",
   scipy_optimizer |-> NoComp, qpu |-> NoComp, stack |-> <<>>, job |-> NoJob,
   res |-> NoRes, VQE_trace |-> NoTrace, multiplier |-> NoComp,
   multiple_launches_stack |-> <<>>, h_spin_0_rotated |-> NoHam,
   job_with_shot_noise |-> NoJob, scipy_optimizer_stack |-> <<>>, scipy_res |-> NoRes,
   seq_optim |-> NoComp, seq_optimizer_stack |-> <<>>,
   hamilt_1 |-> NoHam, h_mat_1 |-> NoSym, E0_U1 |-> NoSym, h_spin_1 |-> NoHam,
   depol_plugin |-> NoComp, depol_qpu |-> <<>>, depol_scipy_optimizer_stack |-> <<>>]

StackIds(s) == {s[i].id : i \in DOMAIN s}

\* the identities of the plugin and QPU objects still referenced
LiveIds(e, f) ==
  ({e.scipy_optimizer.id, e.qpu.id, e.multiplier.id, e.seq_optim.id, e.depol_plugin.id}
     \cup StackIds(e.stack) \cup StackIds(e.multiple_launches_stack)
     \cup StackIds(e.scipy_optimizer_stack) \cup StackIds(e.seq_optimizer_stack)
     \cup StackIds(e.depol_qpu) \cup StackIds(e.depol_scipy_optimizer_stack)
     \cup StackIds(e.res.stack) \cup StackIds(e.scipy_res.stack)
     \cup StackIds(e.VQE_trace.of.stack)
     \cup UNION {StackIds(f[c].curve.of.stack) : c \in DOMAIN f}) \ {0}

\* the identity of a newly constructed object: one no live object has
FreshId(e, f) ==
  LET live == LiveIds(e, f)
  IN  CHOOSE i \in 1..(Cardinality(live) + 1) :
        i \notin live /\ \A j \in 1..(i - 1) : j \in live

(* cell 03ca0e54 *)
EvalU0(line, e) ==
  CASE line = 113 -> [e EXCEPT !.U = 0]
    [] line = 114 -> [e EXCEPT !.mu = TrueDiv(e.U, 2)]
    [] line = 115 -> [e EXCEPT !.V = <<1>>]
    [] line = 116 -> [e EXCEPT !.epsilon = <<2>>]
    [] line = 118 -> [e EXCEPT !.hamilt_0 = make_anderson_model(e.U, e.mu, e.V, e.epsilon)]
    [] line = 119 -> [e EXCEPT !.h_mat_0 = get_matrix(e.hamilt_0)]
    [] line = 120 -> [e EXCEPT !.eigvals = eigh_vals(e.h_mat_0),
                               !.eigvecs = eigh_vecs(e.h_mat_0)]
    [] line = 121 -> [e EXCEPT !.E0_U0 = Item0(e.eigvals)]
    [] OTHER -> e

EvalU1ClobbersE0(line, e) ==
  CASE line = 401 -> [e EXCEPT !.U = 1]
    [] line = 402 -> [e EXCEPT !.mu = TrueDiv(e.U, 2)]
    [] line = 403 -> [e EXCEPT !.hamilt_1 = make_anderson_model(e.U, e.mu, e.V, e.epsilon)]
    [] line = 404 -> [e EXCEPT !.h_mat_1 = get_matrix(e.hamilt_1)]
    [] line = 405 -> [e EXCEPT !.eigvals = eigh_vals(e.h_mat_1),
                               !.eigvecs = eigh_vecs(e.h_mat_1)]
    [] line = 406 -> [e EXCEPT !.E0_U0 = Item0(e.eigvals)]
    [] line = 409 -> [e EXCEPT !.h_spin_1 = transform_to_jw_basis(e.hamilt_1)]
    [] OTHER -> e

(* cell 93372946 *)
EvalU1(line, e) ==
  CASE line = 401 -> [e EXCEPT !.U = 1]
    [] line = 402 -> [e EXCEPT !.mu = TrueDiv(e.U, 2)]
    [] line = 403 -> [e EXCEPT !.hamilt_1 = make_anderson_model(e.U, e.mu, e.V, e.epsilon)]
    [] line = 404 -> [e EXCEPT !.h_mat_1 = get_matrix(e.hamilt_1)]
    [] line = 405 -> [e EXCEPT !.eigvals = eigh_vals(e.h_mat_1),
                               !.eigvecs = eigh_vecs(e.h_mat_1)]
    [] line = 406 -> [e EXCEPT !.E0_U1 = Item0(e.eigvals)]
    [] line = 409 -> [e EXCEPT !.h_spin_1 = transform_to_jw_basis(e.hamilt_1)]
    [] OTHER -> e

(* cells efb4fdd5, 1798a907, 8008a68f, f50282fb, 2869fde0, 3131b8ae *)
EvalVQE(line, e, id, v) ==
  CASE line = 162 -> [e EXCEPT !.h_spin_0 = transform_to_jw_basis(e.hamilt_0)]
    [] line = 192 -> [e EXCEPT !.circ = construct_product_circ(DefaultNbqbits).circ]
    [] line = 211 -> [e EXCEPT !.method = "BFGS"]
    [] line = 212 -> [e EXCEPT !.scipy_optimizer =
                        New("ScipyMinimizePlugin", id, {<<"method", e.method>>})]
    [] line = 213 -> [e EXCEPT !.qpu = New("get_default_qpu", id, {})]
    [] line = 214 -> [e EXCEPT !.stack = Pipe(<<e.scipy_optimizer>>, <<e.qpu>>)]
    [] line = 216 -> [e EXCEPT !.job = to_job(e.circ, e.h_spin_0, <<>>)]
    [] line = 234 -> [e EXCEPT !.res = submit(e.stack, e.job, v)]
    [] line = 253 -> [e EXCEPT !.VQE_trace = optimization_trace(e.res)]
    [] line = 300 -> [e EXCEPT !.multiplier =
                        New("MultipleLaunchesAnalyzer", id, {<<"n_runs", "10">>})]
    [] line = 301 -> [e EXCEPT !.multiple_launches_stack = Pipe(<<e.multiplier>>, e.stack)]
    [] line = 303 -> [e EXCEPT !.res = submit(e.multiple_launches_stack, e.job, v)]
    [] OTHER -> e

EvalShotNoNbshots(line, e, id, v) ==
  CASE line = 325 -> [e EXCEPT !.h_spin_0_rotated = ESH_load("h_spin_0_rotated")]
    [] line = 326 -> [e EXCEPT !.job_with_shot_noise =
                        to_job(e.circ, e.h_spin_0_rotated, <<>>)]
    [] line = 328 -> [e EXCEPT !.scipy_optimizer =
                        New("ScipyMinimizePlugin", id, {<<"method", "COBYLA">>})]
    [] line = 329 -> [e EXCEPT !.scipy_optimizer_stack =
                        Pipe(<<e.scipy_optimizer>>, <<e.qpu>>)]
    [] line = 331 -> [e EXCEPT !.scipy_res =
                        submit(e.scipy_optimizer_stack, e.job_with_shot_noise, v)]
    [] OTHER -> e

(* cell 51d42a32 *)
EvalShot(line, e, id, v) ==
  CASE line = 325 -> [e EXCEPT !.h_spin_0_rotated = ESH_load("h_spin_0_rotated")]
    [] line = 326 -> [e EXCEPT !.job_with_shot_noise =
                        to_job(e.circ, e.h_spin_0_rotated, <<1000>>)]
    [] line = 328 -> [e EXCEPT !.scipy_optimizer =
                        New("ScipyMinimizePlugin", id, {<<"method", "COBYLA">>})]
    [] line = 329 -> [e EXCEPT !.scipy_optimizer_stack =
                        Pipe(<<e.scipy_optimizer>>, <<e.qpu>>)]
    [] line = 331 -> [e EXCEPT !.scipy_res =
                        submit(e.scipy_optimizer_stack, e.job_with_shot_noise, v)]
    [] OTHER -> e

(* cells 003bab9c, 86971d59 *)
EvalNoise(line, e, id) ==
  CASE line = 360 -> [e EXCEPT !.seq_optim = New("SeqOptim", id, {<<"ncycles", "10">>})]
    [] line = 363 -> [e EXCEPT !.seq_optimizer_stack = Pipe(<<e.seq_optim>>, <<e.qpu>>)]
    [] line = 484 -> [e EXCEPT !.qpu = New("PyLinalg", id, {})]
    [] line = 485 -> [e EXCEPT !.depol_plugin =
                        New("DepolarizingPluginVec", id,
                            {<<"prob_1qb", "0.001">>, <<"prob_2qb", "0.01">>})]
    [] line = 487 -> [e EXCEPT !.depol_qpu = Pipe(<<e.depol_plugin>>, <<e.qpu>>)]
    [] line = 488 -> [e EXCEPT !.depol_scipy_optimizer_stack =
                        Pipe(Pipe(<<e.scipy_optimizer>>, <<e.depol_plugin>>), <<e.qpu>>)]
    [] OTHER -> e

\* the namespace after the statement at `line`; id is the identity a constructor
\* call gives its object, v the energy an optimisation ends at
Eval(line, e, id, v) ==
  EvalNoise(line, EvalShot(line, EvalVQE(line, EvalU1(line, EvalU0(line, e)), id, v), id, v), id)

\* the figure of the running cell after the plt call at `line`
EvalFig(line, e, fig) ==
  CASE line \in {254, 333} ->
         [fig EXCEPT !.hline = e.E0_U0, !.hlineLabel = "$E_0$"]
    [] line = 255 ->
         [fig EXCEPT !.curve = PyEval(e.VQE_trace), !.curveLabel = "VQE energies"]
    [] line = 334 ->
         [fig EXCEPT !.curve = PyEval(optimization_trace(e.scipy_res)),
                     !.curveLabel = "VQE energy (best run)"]
    [] line \in {256, 335} -> [fig EXCEPT !.grid = TRUE]
    [] line \in {257, 336} -> [fig EXCEPT !.xlabel = "optimization step"]
    [] line \in {258, 337} -> [fig EXCEPT !.ylabel = "energy"]
    [] line \in {259, 338} -> [fig EXCEPT !.legend = TRUE]
    [] OTHER -> fig

(* ------------------------------- actions ------------------------------ *)

Idle == [cell |-> "", idx |-> 0]

NoErr == [cell |-> "", line |-> 0, kind |-> ""]

NoArgs == [fn |-> "", nbqbits |-> 0, n_layers |-> 0, n_parameters |-> Ellipsis]

NoRet == [status |-> "", circ |-> NoCirc, prog |-> Program, ind |-> 0]

Init ==
  /\ g = G0
  /\ bound = {}
  /\ pc = Idle
  /\ cursor = 0
  /\ err = NoErr
  /\ figs = [c \in PlotCells |-> NoFig]
  /\ args = NoArgs
  /\ ret = NoRet

\* the kernel starts executing cell c: its old output is cleared
RunCell(c) ==
  /\ pc = Idle
  /\ pc' = IF Len(c.lines) = 0 THEN Idle ELSE [cell |-> c.id, idx |-> 1]
  /\ err' = NoErr
  /\ figs' = IF c.id \in PlotCells THEN [figs EXCEPT ![c.id] = NoFig] ELSE figs
  /\ UNCHANGED <<g, bound, args, ret>>

\* the user executes any cell
RunAnyCell ==
  /\ cursor < MaxRuns
  /\ \E i \in 1..NCells : RunCell(CodeCells[i])
  /\ cursor' = cursor + 1

\* "Run All": the next cell in notebook order, stopping at the first exception
RunNextCell ==
  /\ cursor < NCells
  /\ err = NoErr
  /\ RunCell(CodeCells[cursor + 1])
  /\ cursor' = cursor + 1

\* the kernel executes the next statement of the running cell; a read of an
\* unbound global raises NameError and ends the cell
ExecStmt ==
  /\ pc # Idle
  /\ LET c    == CellOf(pc.cell)
         line == c.lines[pc.idx]
     IN  \E v \in (IF line \in SubmitLines THEN Energies ELSE {0}) :
           IF Reads(line) \subseteq bound
           THEN /\ g' = Eval(line, g, FreshId(g, figs), v)
                /\ bound' = bound \cup Binds(line)
                /\ figs' = IF c.id \in PlotCells
                           THEN [figs EXCEPT ![c.id] = EvalFig(line, g, @)]
                           ELSE figs
                /\ pc' = IF pc.idx = Len(c.lines) THEN Idle
                         ELSE [pc EXCEPT !.idx = @ + 1]
                /\ err' = err
           ELSE /\ err' = [cell |-> c.id, line |-> line, kind |-> "NameError"]
                /\ pc' = Idle
                /\ UNCHANGED <<g, bound, figs>>
  /\ UNCHANGED <<cursor, args, ret>>

Next == RunAnyCell \/ ExecStmt

\* the cells executed in any order, with repetitions
Spec == Init /\ [][Next]_vars

NextInOrder == RunNextCell \/ ExecStmt

\* the cells executed once each, in notebook order
SpecInOrder == Init /\ [][NextInOrder]_vars

(* a call of one of the two circuit builders *)
Inputs ==
  {[fn |-> "construct_product_circ", nbqbits |-> n, n_layers |-> 0,
    n_parameters |-> Ellipsis] : n \in 0..MaxQbits}
  \cup
  {[fn |-> "construct_correlated_circ", nbqbits |-> n, n_layers |-> l, n_parameters |-> k] :
     n \in 0..MaxQbits, l \in 0..MaxLayers,
     k \in {Ellipsis} \cup {<<i>> : i \in 0..MaxParams}}

InitCirc ==
  /\ g = G0
  /\ bound = {}
  /\ pc = Idle
  /\ cursor = 0
  /\ err = NoErr
  /\ figs = [c \in PlotCells |-> NoFig]
  /\ args \in Inputs
  /\ ret = NoRet

CallProduct ==
  /\ ret = NoRet
  /\ args.fn = "construct_product_circ"
  /\ ret' = construct_product_circ(args.nbqbits)
  /\ UNCHANGED <<g, bound, pc, cursor, err, figs, args>>

CallCorrelated ==
  /\ ret = NoRet
  /\ args.fn = "construct_correlated_circ"
  /\ ret' = construct_correlated_circ(args.nbqbits, args.n_layers, args.n_parameters)
  /\ UNCHANGED <<g, bound, pc, cursor, err, figs, args>>

NextCirc == CallProduct \/ CallCorrelated

SpecCirc == InitCirc /\ [][NextCirc]_vars

(* ------------------------------- claims ------------------------------- *)

Range(f) == {f[i] : i \in DOMAIN f}

ProductReturned == args.fn = "construct_product_circ" /\ ret # NoRet

CorrelatedReturned == args.fn = "construct_correlated_circ" /\ ret # NoRet

\* C1: construct_product_circ(n) returns a circuit of n qubits and n distinct
\* variables theta_0..theta_{n-1} whose n gates are RY(theta_i) on qubit i, in
\* increasing i; every qubit gets one gate, every variable is used once and
\* every gate acts on one qubit.
C1_ProductCircuit ==
  ProductReturned =>
    LET n  == args.nbqbits
        c  == ret.circ
        gs == ret.circ.gates
    IN  /\ ret.status = "return"
        /\ c.nbqbits = n
        /\ Len(c.vars) = n
        /\ Cardinality(Range(c.vars)) = n
        /\ \A i \in 0..(n - 1) : c.vars[i + 1] = VarName(i)
        /\ Len(gs) = n
        /\ \A i \in 0..(n - 1) :
             gs[i + 1] = [gate |-> "RY", var |-> VarName(i), qbits |-> <<i>>]
        /\ \A q \in 0..(n - 1) :
             Cardinality({j \in 1..Len(gs) : q \in Range(gs[j].qbits)}) = 1
        /\ \A i \in 1..Len(c.vars) :
             Cardinality({j \in 1..Len(gs) : gs[j].var = c.vars[i]}) = 1
        /\ \A j \in 1..Len(gs) : Len(gs[j].qbits) = 1

C1_Witness ==
  /\ ProductReturned
  /\ args.nbqbits = DefaultNbqbits
  /\ ret.status = "return"
  /\ Len(ret.circ.gates) = DefaultNbqbits

\* C2: run once each in notebook order, no cell reads an unbound global, so no
\* cell raises; construct_correlated_circ is bound by its def and read by no
\* statement.
C2_NoUnboundRead ==
  /\ err = NoErr
  /\ pc # Idle => Reads(CellOf(pc.cell).lines[pc.idx]) \subseteq bound
  /\ \A i \in 1..NCells : \A j \in 1..Len(CodeCells[i].lines) :
       "construct_correlated_circ" \notin Reads(CodeCells[i].lines[j])

C2_Witness ==
  /\ cursor = NCells
  /\ pc = Idle
  /\ err = NoErr
  /\ {"construct_correlated_circ", "seq_optimizer_stack", "res",
      "depol_scipy_optimizer_stack"} \subseteq bound

\* C3: every observable passed to circ.to_job went through transform_to_jw_basis.
C3_ObservablesJordanWigner ==
  /\ "job" \in bound => g.job.observable.via = "transform_to_jw_basis"
  /\ "job_with_shot_noise" \in bound =>
       g.job_with_shot_noise.observable.via = "transform_to_jw_basis"

Last(s) == s[Len(s)]

ShotKw == {"nbshots"}

\* C5: job has no shot count and job_with_shot_noise has nbshots=1000; the stack
\* that runs job_with_shot_noise ends in the same object, from get_default_qpu(),
\* as the noise-free stack; no component of either stack has a shot setting.
C5_ShotNoiseAtJobLevel ==
  /\ "job" \in bound => g.job.nbshots = <<>>
  /\ "res" \in bound => g.res.job.nbshots = <<>>
  /\ "job_with_shot_noise" \in bound => g.job_with_shot_noise.nbshots = <<1000>>
  /\ "scipy_res" \in bound =>
       /\ g.scipy_res.job = g.job_with_shot_noise
       /\ g.scipy_res.stack = g.scipy_optimizer_stack
       /\ g.scipy_res.job.nbshots = <<1000>>
  /\ "scipy_optimizer_stack" \in bound =>
       /\ "stack" \in bound
       /\ Last(g.scipy_optimizer_stack) = Last(g.stack)
       /\ Last(g.scipy_optimizer_stack).cls = "get_default_qpu"
       /\ \A i \in DOMAIN g.scipy_optimizer_stack :
            \A p \in g.scipy_optimizer_stack[i].kw : p[1] \notin ShotKw
  /\ "stack" \in bound =>
       \A i \in DOMAIN g.stack : \A p \in g.stack[i].kw : p[1] \notin ShotKw

C5_Witness ==
  /\ "scipy_res" \in bound
  /\ g.scipy_res.job.nbshots = <<1000>>
  /\ Last(g.scipy_res.stack).id = Last(g.stack).id

\* C6: both Hamiltonians have one bath site, hence 4 fermionic modes, and circ,
\* built with the default nbqbits, has as many qubits as they have modes.
C6_QubitsMatchModes ==
  /\ "hamilt_0" \in bound =>
       /\ Len(g.hamilt_0.V) = 1 /\ Len(g.hamilt_0.epsilon) = 1
       /\ g.hamilt_0.nbmodes = 4
  /\ "hamilt_1" \in bound =>
       /\ Len(g.hamilt_1.V) = 1 /\ Len(g.hamilt_1.epsilon) = 1
       /\ g.hamilt_1.nbmodes = 4
  /\ "circ" \in bound =>
       /\ g.circ.nbqbits = 4
       /\ "hamilt_0" \in bound => g.circ.nbqbits = g.hamilt_0.nbmodes
       /\ "hamilt_1" \in bound => g.circ.nbqbits = g.hamilt_1.nbmodes
  /\ "job" \in bound => g.job.circ.nbqbits = g.job.observable.nbmodes

C6_Witness ==
  /\ {"circ", "hamilt_0", "hamilt_1", "job"} \subseteq bound
  /\ g.circ.nbqbits = g.hamilt_1.nbmodes

\* the names the U=1 cell binds
U1Names == {"U", "mu", "hamilt_1", "h_mat_1", "eigvals", "eigvecs", "E0_U1", "h_spin_1"}

C7_Parameters ==
  /\ "hamilt_0" \in bound =>
       /\ g.hamilt_0.U = 0 /\ g.hamilt_0.mu = <<0, 1>>
       /\ g.hamilt_0.V = <<1>> /\ g.hamilt_0.epsilon = <<2>>
  /\ "hamilt_1" \in bound =>
       /\ g.hamilt_1.U = 1 /\ g.hamilt_1.mu = <<1, 2>>
       /\ g.hamilt_1.V = <<1>> /\ g.hamilt_1.epsilon = <<2>>
  /\ "E0_U0" \in bound => g.E0_U0 = [op |-> "eigvals[0]", of |-> g.hamilt_0]
  /\ \A c \in PlotCells :
       figs[c].hlineLabel = "$E_0$" =>
         /\ figs[c].hline.op = "eigvals[0]"
         /\ figs[c].hline.of.via = "make_anderson_model"
         /\ figs[c].hline.of.U = 0

C7_Frame ==
  pc.cell = "93372946" =>
    /\ \A f \in (DOMAIN g) \ U1Names : g'[f] = g[f]
    /\ bound' \ bound \subseteq U1Names
    /\ figs' = figs
    /\ pc'= Idle /\ err' = NoErr => U1Names \subseteq bound'

\* C7: in any order of cell executions hamilt_0 is built with U=0, mu=0, V=[1],
\* epsilon=[2] and hamilt_1 with U=1, mu=1/2 and the same V, epsilon; the U=1
\* cell rebinds U, mu, hamilt_1, h_mat_1, eigvals, eigvecs, E0_U1, h_spin_1 only,
\* so the E_0 line of the U=0 plots is the U=0 ground energy.
C7_U1CellFrame == [](C7_Parameters) /\ [][C7_Frame]_vars

C7_Witness ==
  /\ pc.cell = "51d42a32"
  /\ figs["51d42a32"].hlineLabel = "$E_0$"
  /\ {"hamilt_0", "hamilt_1", "E0_U1", "h_spin_1"} \subseteq bound
  /\ g.U = 1
  /\ g.eigvals.of = g.hamilt_1

\* C8: the curve labelled 'VQE energy (best run)' comes from a stack that
\* contains a MultipleLaunchesAnalyzer.
C8_BestRunOfSeveral ==
  \A c \in PlotCells :
    figs[c].curveLabel = "VQE energy (best run)" =>
      \E i \in DOMAIN figs[c].curve.of.stack :
        figs[c].curve.of.stack[i].cls = "MultipleLaunchesAnalyzer"

\* C9: with n_parameters = k >= nbqbits and an empty entangling loop,
\* construct_correlated_circ applies the gates of construct_product_circ(nbqbits),
\* uses only the first nbqbits of its k variables and ends with ind = nbqbits
\* for every n_layers; with k < nbqbits it fails with IndexError at gate k+1; as
\* shipped it fails with TypeError when theta is built, no gate applied and no
\* circuit returned.
C9_CorrelatedProductLayer ==
  CorrelatedReturned =>
    LET n == args.nbqbits
        p == args.n_parameters
    IN  IF p = Ellipsis
        THEN /\ ret.status = "TypeError"
             /\ ret.prog.gates = <<>>
             /\ ret.prog.vars = <<>>
             /\ ret.circ = NoCirc
        ELSE IF p[1] >= n
        THEN /\ ret.status = "return"
             /\ ret.circ.gates = construct_product_circ(n).circ.gates
             /\ ret.circ.nbqbits = n
             /\ Len(ret.circ.vars) = p[1]
             /\ {ret.circ.gates[j].var : j \in 1..Len(ret.circ.gates)}
                  = {ret.circ.vars[i] : i \in 1..n}
             /\ ret.ind = n
        ELSE /\ ret.status = "IndexError"
             /\ Len(ret.prog.gates) = p[1]
             /\ \A i \in 0..(p[1] - 1) :
                  ret.prog.gates[i + 1] =
                    [gate |-> "RY", var |-> VarName(i), qbits |-> <<i>>]
             /\ ret.ind = p[1]
             /\ ret.circ = NoCirc

C9_Witness ==
  /\ CorrelatedReturned
  /\ args.nbqbits = DefaultNbqbits
  /\ args.n_layers = MaxLayers
  /\ args.n_parameters = <<DefaultNbqbits + 1>>
  /\ ret.status = "return"
  /\ ret.ind = DefaultNbqbits

====
